---- MODULE Spec2Model ----
(***************************************************************************)
(* A model of the RRT / RRT* planners of the rrt package: the directed     *)
(* tree (tree.py), the empty and the walled space (space.py), the box goal *)
(* (goals.py) and the two planners (rrt_base.py, rrt_star.py).             *)
(*                                                                         *)
(* Numbers.  The program computes with floating point coordinates.  Here a *)
(* coordinate is an integer, a distance is the integer part of the         *)
(* Euclidean distance (Norm) and +infinity is the value Inf, larger than   *)
(* every finite cost, with a saturating addition (Add).  The planner's     *)
(* tolerance min(dims) * 1e-6 lies below the resolution of the grid, so it *)
(* is the smallest positive distance, Tol.                                 *)
(***************************************************************************)
EXTENDS Integers, Sequences, FiniteSets

VARIABLES
    goals,    \* EmptySpace._goals: the goal boxes of the space, <<ll, ur>> each
    algo,     \* "RRT" or "RRTstar": the planner class
    walled,   \* TRUE: the space is a WallSpace, FALSE: an EmptySpace
    ssize,    \* RRT._ssize
    close,    \* RRTstar._close (unused by RRT)
    nodes,    \* DirectedTree._nodes: the Node objects, in insertion order
    ret,      \* what the last step() returned: 0 for None, else the node
    sampled,  \* q_rand of the last step(); None before the first
    stray,    \* a Node object that is not in the tree's node list
    api       \* the last call of a method from outside a step, or the one
              \* under way: its name, arguments, result and error

vars == <<goals, algo, walled, ssize, close, nodes, ret, sampled, stray, api>>

(***************************************************************************)
(* Bounds of the model.                                                    *)
(***************************************************************************)
MaxNodes == 5

(***************************************************************************)
(* The scene of test_rrt.py.                                               *)
(***************************************************************************)
Dims == <<500, 500>>
Goals == << <<(<<375, 375>>), (<<425, 425>>)>> >>
Walls == << <<(<<200, 200>>), (<<300, 300>>)>> >>
InitialPoint == <<50, 50>>

Inf == 1000000
Tol == 1
None == <<>>

\* The points np.random.rand(2) * dims is taken from: points of [0, dims).
SamplePoints ==
    { <<250, 50>>, <<250, 250>>, <<400, 400>>, <<150, 150>>,
      <<0, 50>>, <<400, 50>>, <<50, 400>>, <<499, 0>>, <<290, 310>> }

\* The constructor arguments (step_size, close_size) the planners are run with.
Diag == 707
Configs ==
    { [algo |-> "RRT",     ssize |-> 200,  close |-> 0],
      [algo |-> "RRT",     ssize |-> Diag, close |-> 0],
      [algo |-> "RRTstar", ssize |-> 200,  close |-> 150],
      [algo |-> "RRTstar", ssize |-> 220,  close |-> 660] }

(***************************************************************************)
(* Arithmetic.                                                             *)
(***************************************************************************)
isinf(x) == x = Inf

Add(a, b) == IF isinf(a) \/ isinf(b) THEN Inf ELSE a + b

\* Division rounding towards zero.
Div(a, b) == IF a >= 0 THEN a \div b ELSE -((-a) \div b)

\* LET x == e IN F(x), with e evaluated once, before F is.
Bind(e, F(_)) == CHOOSE r \in {F(x) : x \in {e}} : TRUE

Min2(a, b) == IF a < b THEN a ELSE b
Max2(a, b) == IF a > b THEN a ELSE b

RECURSIVE SqrtIter(_, _, _)
SqrtIter(n, lo, hi) ==
    IF lo >= hi THEN lo
    ELSE LET mid == (lo + hi + 1) \div 2
         IN  IF mid * mid <= n THEN SqrtIter(n, mid, hi)
             ELSE SqrtIter(n, lo, mid - 1)

ISqrt(n) == SqrtIter(n, 0, Dims[1] + Dims[2])

Abs(x) == IF x < 0 THEN -x ELSE x

\* np.linalg.norm(p - q): ISqrt of the sum of the squares, searched for
\* between two bounds of the root.  With a >= b >= 0 the root of a*a + b*b
\* is a + b*b / (root + a), and a <= root <= a + b/2.
Norm(p, q) ==
    LET a == Max2(Abs(p[1] - q[1]), Abs(p[2] - q[2]))
        b == Min2(Abs(p[1] - q[1]), Abs(p[2] - q[2]))
    IN  IF b = 0 THEN a
        ELSE SqrtIter(a * a + b * b, a + (2 * b * b) \div (4 * a + b),
                      a + (b * b) \div (2 * a))

(***************************************************************************)
(* helpers.py, goals.py and the geometry package.                          *)
(***************************************************************************)
\* point_in_box without the edges of the box
point_in_box_open(min_verts, max_verts, point) ==
    /\ point[1] > min_verts[1] /\ point[2] > min_verts[2]
    /\ point[1] < max_verts[1] /\ point[2] < max_verts[2]

point_in_box(min_verts, max_verts, point) ==
    /\ point[1] >= min_verts[1] /\ point[2] >= min_verts[2]
    /\ point[1] <= max_verts[1] /\ point[2] <= max_verts[2]

\* BoxGoal2D.point_in, for the goal g = <<ll, ur>>
point_in(g, point) ==
    /\ point[1] >= g[1][1] /\ point[2] >= g[1][2]
    /\ point[1] <= g[2][1] /\ point[2] <= g[2][2]

Cross(o, a, b) ==
    (a[1] - o[1]) * (b[2] - o[2]) - (a[2] - o[2]) * (b[1] - o[1])

\* c, collinear with a and b, lies on the segment a-b
OnSegment(a, b, c) ==
    /\ Min2(a[1], b[1]) <= c[1] /\ c[1] <= Max2(a[1], b[1])
    /\ Min2(a[2], b[2]) <= c[2] /\ c[2] <= Max2(a[2], b[2])

Sign(x) == IF x > 0 THEN 1 ELSE IF x < 0 THEN -1 ELSE 0

\* geometry.lines_intersect: the segments share a point; touching counts.
lines_intersect(a1, a2, b1, b2) ==
    LET d1 == Sign(Cross(b1, b2, a1))
        d2 == Sign(Cross(b1, b2, a2))
        d3 == Sign(Cross(a1, a2, b1))
        d4 == Sign(Cross(a1, a2, b2))
    IN  \/ (d1 * d2 < 0 /\ d3 * d4 < 0)
        \/ (d1 = 0 /\ OnSegment(b1, b2, a1))
        \/ (d2 = 0 /\ OnSegment(b1, b2, a2))
        \/ (d3 = 0 /\ OnSegment(a1, a2, b1))
        \/ (d4 = 0 /\ OnSegment(a1, a2, b2))

\* geometry.find_intersection_point: the one point the segments a1-a2 and
\* b1-b2 share, None when there is none (parallel segments have no single
\* point).  The point is taken along b1-b2, so that it lies on that edge.
find_intersection_point(a1, a2, b1, b2) ==
    LET rx == a2[1] - a1[1]
        ry == a2[2] - a1[2]
        sx == b2[1] - b1[1]
        sy == b2[2] - b1[2]
        d  == rx * sy - ry * sx
        tn == (b1[1] - a1[1]) * sy - (b1[2] - a1[2]) * sx
        un == (b1[1] - a1[1]) * ry - (b1[2] - a1[2]) * rx
        sg == Sign(d)
    IN  IF d = 0 THEN None
        ELSE IF /\ 0 <= tn * sg /\ tn * sg <= d * sg
                /\ 0 <= un * sg /\ un * sg <= d * sg
             THEN <<b1[1] + Div(sx * (un * sg), d * sg),
                    b1[2] + Div(sy * (un * sg), d * sg)>>
             ELSE None

(***************************************************************************)
(* space.py: EmptySpace and WallSpace.                                     *)
(***************************************************************************)
\* the bounds test with the boundary let in
InBounds_closed(point) ==
    /\ point[1] >= 0 /\ point[2] >= 0
    /\ point[1] <= Dims[1] /\ point[2] <= Dims[2]

InBounds(point) ==
    /\ point[1] > 0 /\ point[2] > 0
    /\ point[1] < Dims[1] /\ point[2] < Dims[2]

\* EmptySpace.collision_free
EmptyCollisionFree(point_from, point_to) ==
    InBounds(point_from) /\ InBounds(point_to)

\* The four edges of the box <<ll, ur>>, in the order of the ilines lists.
BoxEdges(w) ==
    << <<w[1], <<w[1][1], w[2][2]>> >>,
       <<w[1], <<w[2][1], w[1][2]>> >>,
       << <<w[1][1], w[2][2]>>, w[2] >>,
       << <<w[2][1], w[1][2]>>, w[2] >> >>

\* The four outer wall segments of get_nearest_free_point.
OuterEdges ==
    << << <<0, 0>>, <<Dims[1], 0>> >>,
       << <<0, 0>>, <<0, Dims[2]>> >>,
       << <<Dims[1], 0>>, Dims >>,
       << <<0, Dims[2]>>, Dims >> >>

\* The segment's bounding box reaches the wall's (the "close enough" test).
CloseToWall(w, point_from, point_to) ==
    LET min_x == Min2(point_from[1], point_to[1])
        max_x == Max2(point_from[1], point_to[1])
        min_y == Min2(point_from[2], point_to[2])
        max_y == Max2(point_from[2], point_to[2])
    IN  ~ (\/ min_x > w[2][1]
           \/ min_y > w[2][2]
           \/ max_x < w[1][1]
           \/ max_y < w[1][2])

\* One wall of WallSpace.collision_free's loop blocks the segment.
WallBlocks(w, point_from, point_to) ==
    /\ CloseToWall(w, point_from, point_to)
    /\ \/ point_in_box(w[1], w[2], point_from)
       \/ point_in_box(w[1], w[2], point_to)
       \/ \E k \in 1..4 :
              lines_intersect(point_from, point_to,
                              BoxEdges(w)[k][1], BoxEdges(w)[k][2])

\* WallSpace.collision_free
WallCollisionFree(point_from, point_to) ==
    /\ InBounds(point_from) /\ InBounds(point_to)
    /\ \A i \in 1..Len(Walls) : ~ WallBlocks(Walls[i], point_from, point_to)

collision_free(w, point_from, point_to) ==
    IF w THEN WallCollisionFree(point_from, point_to)
    ELSE EmptyCollisionFree(point_from, point_to)

\* EmptySpace.get_path_cost (inherited by WallSpace)
get_path_cost(w, point_from, point_to) ==
    IF ~ collision_free(w, point_from, point_to) THEN Inf
    ELSE Norm(point_from, point_to)

\* The first intersection with one of the edges from the k-th on, or None.
RECURSIVE FirstIntersection(_, _, _, _)
FirstIntersection(edges, k, point_from, point_to) ==
    IF k > Len(edges) THEN None
    ELSE LET intersect == find_intersection_point(point_from, point_to,
                                                  edges[k][1], edges[k][2])
         IN  IF intersect # None THEN intersect
             ELSE FirstIntersection(edges, k + 1, point_from, point_to)

\* EmptySpace.get_nearest_free_point
EmptyNearestFreePoint(point_from, point_to) ==
    LET intersect == FirstIntersection(OuterEdges, 1, point_from, point_to)
    IN  IF intersect # None THEN intersect ELSE point_to

\* The intersection points with the edges of one wall, in edge order.
RECURSIVE EdgeIntersections(_, _, _, _)
EdgeIntersections(edges, k, point_from, point_to) ==
    IF k > Len(edges) THEN <<>>
    ELSE LET p == find_intersection_point(point_from, point_to,
                                          edges[k][1], edges[k][2])
             rest == EdgeIntersections(edges, k + 1, point_from, point_to)
         IN  IF p # None THEN <<p>> \o rest ELSE rest

\* intersect_points of WallSpace.get_nearest_free_point, from wall i on.
RECURSIVE WallIntersections(_, _, _)
WallIntersections(i, point_from, point_to) ==
    IF i > Len(Walls) THEN <<>>
    ELSE (IF CloseToWall(Walls[i], point_from, point_to)
          THEN EdgeIntersections(BoxEdges(Walls[i]), 1, point_from, point_to)
          ELSE <<>>)
         \o WallIntersections(i + 1, point_from, point_to)

\* The scan for the point closest to point_from: strictly closer replaces.
RECURSIVE ClosestFrom(_, _, _, _)
ClosestFrom(ips, k, best_point, point_from) ==
    IF k > Len(ips) THEN best_point
    ELSE IF Norm(point_from, ips[k]) < Norm(point_from, best_point)
         THEN ClosestFrom(ips, k + 1, ips[k], point_from)
         ELSE ClosestFrom(ips, k + 1, best_point, point_from)

\* WallSpace.get_nearest_free_point
WallNearestFreePoint(point_from, point_to) ==
    LET intersect == FirstIntersection(OuterEdges, 1, point_from, point_to)
        intersect_points == WallIntersections(1, point_from, point_to)
    IN  IF intersect # None THEN intersect
        ELSE IF Len(intersect_points) > 0
             THEN ClosestFrom(intersect_points, 2, intersect_points[1],
                              point_from)
             ELSE point_to

get_nearest_free_point(w, point_from, point_to) ==
    IF w THEN WallNearestFreePoint(point_from, point_to)
    ELSE EmptyNearestFreePoint(point_from, point_to)

\* WallSpace._point_in_walls, for a space whose walls are ws
point_in_some_wall(ws, point) ==
    \E i \in 1..Len(ws) : point_in_box(ws[i][1], ws[i][2], point)

\* WallSpace._point_in_walls
point_in_walls(point) == point_in_some_wall(Walls, point)

\* get_random_free_point: the points a call can return.  The walled space
\* samples again until the point is outside every wall.
RandomFreePoints(w) ==
    IF w THEN {pt \in SamplePoints : ~ point_in_walls(pt)}
    ELSE SamplePoints

\* EmptySpace.check_point_in_goals
check_point_in_goals(point) ==
    \E i \in 1..Len(goals) : point_in(goals[i], point)

(***************************************************************************)
(* tree.py: Node and DirectedTree.  A Node object is its position in the   *)
(* node list; the parent of the head node is 0 (None).                     *)
(***************************************************************************)
\* Node.__init__
Node(ns, pt, parent, add_cost) ==
    [pt |-> pt, parent |-> parent, children |-> <<>>, newcost |-> add_cost,
     cost |-> IF parent = 0 THEN 0 ELSE Add(ns[parent].cost, add_cost),
     goal |-> FALSE]

\* a constructor that marks the head node when its point is in a goal
DirectedTree_marked(init_pt) ==
    << [Node(<<>>, init_pt, 0, 1)
           EXCEPT !.goal = check_point_in_goals(init_pt)] >>

\* DirectedTree.__init__
DirectedTree(init_pt) == << Node(<<>>, init_pt, 0, 1) >>

\* DirectedTree.add_node (parent is a node of the tree); the new node is the
\* last of the list.
add_node(ns, parent, childpt, add_cost) ==
    Append([ns EXCEPT ![parent].children = Append(@, Len(ns) + 1)],
           Node(ns, childpt, parent, add_cost))

\* Node.mark_goal
mark_goal(ns, n) == [ns EXCEPT ![n].goal = TRUE]

\* list.remove: without the first occurrence of x
RECURSIVE Remove(_, _)
Remove(s, x) ==
    IF s = <<>> THEN <<>>
    ELSE IF Head(s) = x THEN Tail(s)
         ELSE <<Head(s)>> \o Remove(Tail(s), x)

\* recost that leaves the children's costs as they are
recost_shallow(ns, n, depth) ==
    [ns EXCEPT ![n].cost = Add(ns[ns[n].parent].cost, ns[n].newcost)]

\* Node.recost: the node's cost from its parent's, then its children's, in
\* order.  depth counts the nested calls; on a tree it stays below the
\* number of nodes.
RECURSIVE recost(_, _, _)
RECURSIVE RecostChildren(_, _, _, _)
recost(ns, n, depth) ==
    Bind([ns EXCEPT ![n].cost = Add(ns[ns[n].parent].cost, ns[n].newcost)],
         LAMBDA ns1 :
             IF depth > Len(ns1) THEN ns1
             ELSE RecostChildren(ns1, ns1[n].children, 1, depth + 1))

RecostChildren(ns, cs, k, depth) ==
    IF k > Len(cs) THEN ns
    ELSE Bind(recost(ns, cs[k], depth),
              LAMBDA ns1 : RecostChildren(ns1, cs, k + 1, depth))

\* reparent that leaves the node in its old parent's children
reparent_keep(ns, n, newparent, newcost) ==
    LET ns2 == [ns EXCEPT ![n].parent = newparent]
        ns3 == [ns2 EXCEPT ![newparent].children = Append(@, n)]
        ns4 == [ns3 EXCEPT ![n].newcost = newcost]
    IN  Bind(ns4, LAMBDA ns5 : recost(ns5, n, 1))

\* reparent that does not enter the node in its new parent's children
reparent_unlisted(ns, n, newparent, newcost) ==
    LET ns1 == [ns EXCEPT ![ns[n].parent].children = Remove(@, n)]
        ns2 == [ns1 EXCEPT ![n].parent = newparent]
        ns4 == [ns2 EXCEPT ![n].newcost = newcost]
    IN  Bind(ns4, LAMBDA ns5 : recost(ns5, n, 1))

\* Node.reparent
reparent(ns, n, newparent, newcost) ==
    LET ns1 == [ns EXCEPT ![ns[n].parent].children = Remove(@, n)]
        ns2 == [ns1 EXCEPT ![n].parent = newparent]
        ns3 == [ns2 EXCEPT ![newparent].children = Append(@, n)]
        ns4 == [ns3 EXCEPT ![n].newcost = newcost]
    IN  Bind(ns4, LAMBDA ns5 : recost(ns5, n, 1))

\* The nodes of the list whose goal flag is b, in insertion order.
RECURSIVE NodesWithGoal(_, _, _)
NodesWithGoal(ns, k, b) ==
    IF k > Len(ns) THEN <<>>
    ELSE (IF ns[k].goal = b THEN <<k>> ELSE <<>>) \o NodesWithGoal(ns, k + 1, b)

\* free_nodes without the test of the goal flag
free_nodes_all(ns) == [k \in 1..Len(ns) |-> k]

\* DirectedTree._get_free_nodes
free_nodes(ns) == NodesWithGoal(ns, 1, FALSE)

\* DirectedTree._get_goal_nodes
goal_nodes(ns) == NodesWithGoal(ns, 1, TRUE)

\* a scan that keeps the last of several least elements
RECURSIVE ArgminLast(_, _, _)
ArgminLast(s, k, best) ==
    IF k > Len(s) THEN best
    ELSE IF s[k] <= s[best] THEN ArgminLast(s, k + 1, k)
         ELSE ArgminLast(s, k + 1, best)

\* np.argmin: the first position of the least element, found by a scan
RECURSIVE ArgminFrom(_, _, _)
ArgminFrom(s, k, best) ==
    IF k > Len(s) THEN best
    ELSE IF s[k] < s[best] THEN ArgminFrom(s, k + 1, k)
         ELSE ArgminFrom(s, k + 1, best)

argmin(s) == ArgminFrom(s, 2, 1)

\* nearest that takes the last of the closest nodes
nearest_last(ns, newpt) ==
    LET frees == free_nodes(ns)
        dists == [k \in 1..Len(frees) |-> Norm(ns[frees[k]].pt, newpt)]
    IN  frees[ArgminLast(dists, 2, 1)]

\* DirectedTree.nearest
nearest(ns, newpt) ==
    LET frees == free_nodes(ns)
        dists == [k \in 1..Len(frees) |-> Norm(ns[frees[k]].pt, newpt)]
    IN  frees[argmin(dists)]

\* near that leaves out the nodes at the radius itself
RECURSIVE NearFrom_strict(_, _, _, _, _)
NearFrom_strict(ns, frees, k, newpt, radius) ==
    IF k > Len(frees) THEN <<>>
    ELSE (IF Norm(ns[frees[k]].pt, newpt) < radius THEN <<frees[k]>> ELSE <<>>)
         \o NearFrom_strict(ns, frees, k + 1, newpt, radius)

\* DirectedTree.near; the radius may be Inf
RECURSIVE NearFrom(_, _, _, _, _)
NearFrom(ns, frees, k, newpt, radius) ==
    IF k > Len(frees) THEN <<>>
    ELSE (IF Norm(ns[frees[k]].pt, newpt) <= radius THEN <<frees[k]>> ELSE <<>>)
         \o NearFrom(ns, frees, k + 1, newpt, radius)

near(ns, newpt, radius) == NearFrom(ns, free_nodes(ns), 1, newpt, radius)

\* the walk up the parent links that stops below the head
RECURSIVE PathUp_headless(_, _, _)
PathUp_headless(ns, curnode, depth) ==
    IF ns[curnode].parent = 0 \/ ns[ns[curnode].parent].parent = 0
       \/ depth > Len(ns)
    THEN <<curnode>>
    ELSE <<curnode>> \o PathUp_headless(ns, ns[curnode].parent, depth + 1)

\* DirectedTree.path_down (end_node is a node of the tree)
RECURSIVE PathUp(_, _, _)
PathUp(ns, curnode, depth) ==
    IF ns[curnode].parent = 0 \/ depth > Len(ns) THEN <<curnode>>
    ELSE <<curnode>> \o PathUp(ns, ns[curnode].parent, depth + 1)

Reverse(s) == [k \in 1..Len(s) |-> s[Len(s) + 1 - k]]

\* path_down without the reverse: from the node up to the head
path_down_up(ns, end_node) == PathUp(ns, end_node, 1)

path_down(ns, end_node) == Reverse(PathUp(ns, end_node, 1))

(***************************************************************************)
(* rrt_base.py: RRT.  A step's outcome is the node list it leaves and the  *)
(* value it returns (0 for None).                                          *)
(***************************************************************************)
\* steer that never shortens the step
steer_unclamped(sz, point_from, point_to) == point_to

\* RRT.steer
steer(sz, point_from, point_to) ==
    LET vlen == Norm(point_to, point_from)
    IN  IF vlen < sz THEN point_to
        ELSE <<point_from[1] + Div((point_to[1] - point_from[1]) * sz, vlen),
               point_from[2] + Div((point_to[2] - point_from[2]) * sz, vlen)>>

\* a hook-up that marks the node the point is hung under, not the new node
HookUp_nearest(ns, parent, q_path, cost_path) ==
    Bind(add_node(ns, parent, q_path, cost_path),
         LAMBDA ns1 :
             [nodes |-> IF check_point_in_goals(q_path)
                        THEN mark_goal(ns1, parent) ELSE ns1,
              ret |-> Len(ns1)])

\* The end of RRT._step_to: hook the new point up and mark it if in a goal.
HookUp(ns, parent, q_path, cost_path) ==
    Bind(add_node(ns, parent, q_path, cost_path),
         LAMBDA ns1 :
             LET node_path == Len(ns1)
             IN  [nodes |-> IF check_point_in_goals(q_path)
                            THEN mark_goal(ns1, node_path) ELSE ns1,
                  ret |-> node_path])

\* _step_to that hooks the point up before the tolerance test
step_to_late(w, sz, ns, q_rand) ==
    Bind(nearest(ns, q_rand), LAMBDA node_nearest :
        LET q_nearest == ns[node_nearest].pt
            q_path == steer(sz, q_nearest, q_rand)
            cost_path == get_path_cost(w, q_nearest, q_path)
        IN  IF isinf(cost_path)
            THEN Bind(get_nearest_free_point(w, q_nearest, q_path),
                      LAMBDA q_free :
                     Bind(HookUp(ns, node_nearest, q_free,
                                 get_path_cost(w, q_nearest, q_free)),
                          LAMBDA h :
                         IF Norm(q_nearest, q_free) < Tol
                         THEN [nodes |-> h.nodes, ret |-> 0]
                         ELSE h))
            ELSE HookUp(ns, node_nearest, q_path, cost_path))

\* RRT._step_to
step_to(w, sz, ns, q_rand) ==
    Bind(nearest(ns, q_rand), LAMBDA node_nearest :
        LET q_nearest == ns[node_nearest].pt
            q_path == steer(sz, q_nearest, q_rand)
            cost_path == get_path_cost(w, q_nearest, q_path)
        IN  IF isinf(cost_path)
            THEN Bind(get_nearest_free_point(w, q_nearest, q_path),
                      LAMBDA q_free :
                     IF Norm(q_nearest, q_free) < Tol
                     THEN [nodes |-> ns, ret |-> 0]
                     ELSE HookUp(ns, node_nearest, q_free,
                                 get_path_cost(w, q_nearest, q_free)))
            ELSE HookUp(ns, node_nearest, q_path, cost_path))

\* RRT.get_shortest_path: the cost, the end node (0 when there is none) and
\* the points of the path (None when there is none).
get_shortest_path(ns) ==
    LET gs == goal_nodes(ns)
    IN  IF Len(gs) = 0 THEN [cost |-> Inf, end_node |-> 0, path |-> None]
        ELSE LET costs == [k \in 1..Len(gs) |-> ns[gs[k]].cost]
                 end_node == gs[argmin(costs)]
                 pd == path_down(ns, end_node)
             IN  [cost |-> ns[end_node].cost, end_node |-> end_node,
                  path |-> [k \in 1..Len(pd) |-> ns[pd[k]].pt]]

(***************************************************************************)
(* rrt_star.py: RRTstar.                                                   *)
(***************************************************************************)
\* One candidate of the minimisation loop: its point and its edge cost.
Candidate(w, sz, ns, node_near, q_rand) ==
    LET q_near == ns[node_near].pt
        q_path == steer(sz, q_near, q_rand)
        cost_path == get_path_cost(w, q_near, q_path)
    IN  IF isinf(cost_path)
        THEN LET q_free == get_nearest_free_point(w, q_near, q_path)
             IN  [q_path |-> q_free,
                  cost_path |-> IF Norm(q_near, q_free) < Tol THEN Inf
                                ELSE get_path_cost(w, q_near, q_free)]
        ELSE [q_path |-> q_path, cost_path |-> cost_path]

\* the minimisation loop that keeps the first candidate of finite total cost
RECURSIVE FindMin_first(_, _, _, _, _, _, _)
FindMin_first(w, sz, ns, Q_near, k, q_rand, m) ==
    IF k > Len(Q_near) THEN m
    ELSE Bind(Candidate(w, sz, ns, Q_near[k], q_rand),
              LAMBDA c :
                  LET tot_cost == Add(ns[Q_near[k]].cost, c.cost_path)
                  IN  IF m.node_min = 0 /\ tot_cost < m.cost_min
                      THEN FindMin_first(w, sz, ns, Q_near, k + 1, q_rand,
                                         [cost_min |-> tot_cost,
                                          new_cost_min |-> c.cost_path,
                                          node_min |-> Q_near[k],
                                          steer_min |-> c.q_path])
                      ELSE FindMin_first(w, sz, ns, Q_near, k + 1, q_rand, m))

\* The minimisation loop over Q_near, from its k-th node on; m holds
\* cost_min, new_cost_min, node_min and steer_min.
RECURSIVE FindMin(_, _, _, _, _, _, _)
FindMin(w, sz, ns, Q_near, k, q_rand, m) ==
    IF k > Len(Q_near) THEN m
    ELSE Bind(Candidate(w, sz, ns, Q_near[k], q_rand),
              LAMBDA c :
                  LET tot_cost == Add(ns[Q_near[k]].cost, c.cost_path)
                  IN  IF tot_cost < m.cost_min
                      THEN FindMin(w, sz, ns, Q_near, k + 1, q_rand,
                                   [cost_min |-> tot_cost,
                                    new_cost_min |-> c.cost_path,
                                    node_min |-> Q_near[k],
                                    steer_min |-> c.q_path])
                      ELSE FindMin(w, sz, ns, Q_near, k + 1, q_rand, m))

\* the rewire test without the comparison of the costs
ShouldRewire_any(w, ns, new_node, node_near) ==
    ~ isinf(get_path_cost(w, ns[new_node].pt, ns[node_near].pt))

\* the rewire test with the comparison of the costs turned around
ShouldRewire_worse(w, ns, new_node, node_near) ==
    LET cost_new == get_path_cost(w, ns[new_node].pt, ns[node_near].pt)
    IN  /\ ~ isinf(cost_new)
        /\ Add(cost_new, ns[new_node].cost) > ns[node_near].cost

\* the rewire test that never lets a neighbour be reparented
ShouldRewire_never(w, ns, new_node, node_near) == FALSE

\* The test of the rewire loop for one neighbour.
ShouldRewire(w, ns, new_node, node_near) ==
    LET cost_new == get_path_cost(w, ns[new_node].pt, ns[node_near].pt)
    IN  /\ ~ isinf(cost_new)
        /\ Add(cost_new, ns[new_node].cost) < ns[node_near].cost

\* the rewire loop that ends with the first neighbour it reparents
RECURSIVE Rewire_once(_, _, _, _, _)
Rewire_once(w, ns, new_node, neighbours, k) ==
    IF k > Len(neighbours) THEN ns
    ELSE IF ShouldRewire(w, ns, new_node, neighbours[k])
         THEN reparent(ns, neighbours[k], new_node,
                       get_path_cost(w, ns[new_node].pt, ns[neighbours[k]].pt))
         ELSE Rewire_once(w, ns, new_node, neighbours, k + 1)

\* The rewire loop over the neighbours, from the k-th on.
RECURSIVE Rewire(_, _, _, _, _)
Rewire(w, ns, new_node, neighbours, k) ==
    IF k > Len(neighbours) THEN ns
    ELSE IF ShouldRewire(w, ns, new_node, neighbours[k])
         THEN Bind(reparent(ns, neighbours[k], new_node,
                            get_path_cost(w, ns[new_node].pt,
                                          ns[neighbours[k]].pt)),
                   LAMBDA ns1 : Rewire(w, ns1, new_node, neighbours, k + 1))
         ELSE Rewire(w, ns, new_node, neighbours, k + 1)

\* RRTstar.step, for the sampled point q_rand
star_step(w, sz, cl, ns, q_rand) ==
    Bind(near(ns, q_rand, cl), LAMBDA Q_near :
        IF Len(Q_near) = 0 THEN step_to(w, sz, ns, q_rand)
        ELSE Bind(FindMin(w, sz, ns, Q_near, 1, q_rand,
                          [cost_min |-> Inf, new_cost_min |-> Inf,
                           node_min |-> 0, steer_min |-> None]),
                  LAMBDA m :
            IF m.node_min = 0 THEN [nodes |-> ns, ret |-> 0]
            ELSE Bind(HookUp(ns, m.node_min, m.steer_min, m.new_cost_min),
                      LAMBDA h :
                Bind(near(h.nodes, h.nodes[h.ret].pt, Min2(sz, cl)),
                     LAMBDA neighbours :
                    [nodes |-> Rewire(w, h.nodes, h.ret, neighbours, 1),
                     ret |-> h.ret]))))

(***************************************************************************)
(* Calls from outside a step.  A Node object is named by its position in   *)
(* the node list, or by Stray when it is the node that is not in the list. *)
(***************************************************************************)
Stray == -1

\* Node(pt, None): a node made outside the tree
StrayNode == Node(<<>>, <<150, 150>>, 0, 1)

NoCall == [op |-> "", args |-> <<>>, out |-> <<>>, err |-> "", pc |-> "done"]

\* A call that has returned out.
Returned(op, args, out) ==
    [op |-> op, args |-> args, out |-> out, err |-> "", pc |-> "done"]

\* A call that has raised err.
Raised(op, args, err) ==
    [op |-> op, args |-> args, out |-> <<>>, err |-> err, pc |-> "done"]

\* add_node without the assertion on the parent
AddNodeCall_unchecked(ns, st, parent, childpt, add_cost) ==
    IF parent = Stray
    THEN [nodes |-> Append(ns, [pt |-> childpt, parent |-> Stray,
                                children |-> <<>>, newcost |-> add_cost,
                                cost |-> Add(st.cost, add_cost),
                                goal |-> FALSE]),
          stray |-> [st EXCEPT !.children = Append(@, Len(ns) + 1)],
          out |-> Len(ns) + 1, err |-> ""]
    ELSE [nodes |-> add_node(ns, parent, childpt, add_cost), stray |-> st,
          out |-> Len(ns) + 1, err |-> ""]

\* DirectedTree.add_node, for any Node object as the parent: the node list
\* and the stray node it leaves, the node it returns, the error it raises.
AddNodeCall(ns, st, parent, childpt, add_cost) ==
    IF parent \notin 1..Len(ns)
    THEN [nodes |-> ns, stray |-> st, out |-> 0, err |-> "AssertionError"]
    ELSE [nodes |-> add_node(ns, parent, childpt, add_cost), stray |-> st,
          out |-> Len(ns) + 1, err |-> ""]

\* path_down without the assertion on the end node
PathDownCall_unchecked(ns, end_node) ==
    IF end_node = Stray THEN [out |-> <<Stray>>, err |-> ""]
    ELSE [out |-> path_down(ns, end_node), err |-> ""]

\* DirectedTree.path_down, for any Node object as the end node
PathDownCall(ns, end_node) ==
    IF end_node \notin 1..Len(ns)
    THEN [out |-> <<>>, err |-> "AssertionError"]
    ELSE [out |-> path_down(ns, end_node), err |-> ""]

\* steer that also hands back its argument at the step size itself
SteerCall_inclusive(sz, point_from, point_to) ==
    [point |-> steer(sz, point_from, point_to),
     is_point_to |-> Norm(point_to, point_from) <= sz]

\* RRT.steer as a caller sees it: the point returned, and whether it is the
\* argument point_to itself (the first return) or an array made anew.
SteerCall(sz, point_from, point_to) ==
    [point |-> steer(sz, point_from, point_to),
     is_point_to |-> Norm(point_to, point_from) < sz]

(***************************************************************************)
(* The planner as a state machine: construction, then step() again and     *)
(* again, each with a point of get_random_free_point.                      *)
(***************************************************************************)
Init ==
    /\ goals = Goals
    /\ \E c \in Configs :
           /\ algo = c.algo
           /\ ssize = c.ssize
           /\ close = c.close
    /\ walled \in BOOLEAN
    /\ nodes = DirectedTree(InitialPoint)
    /\ ret = 0
    /\ sampled = None
    /\ stray = StrayNode
    /\ api = NoCall

\* RRT.step
RRTStep ==
    /\ algo = "RRT"
    /\ Len(nodes) < MaxNodes
    /\ \E q_rand \in RandomFreePoints(walled) :
           /\ sampled' = q_rand
           /\ \E r \in {step_to(walled, ssize, nodes, q_rand)} :
                  nodes' = r.nodes /\ ret' = r.ret
    /\ UNCHANGED <<goals, algo, walled, ssize, close, stray, api>>

\* RRTstar.step
RRTstarStep ==
    /\ algo = "RRTstar"
    /\ Len(nodes) < MaxNodes
    /\ \E q_rand \in RandomFreePoints(walled) :
           /\ sampled' = q_rand
           /\ \E r \in {star_step(walled, ssize, close, nodes, q_rand)} :
                  nodes' = r.nodes /\ ret' = r.ret
    /\ UNCHANGED <<goals, algo, walled, ssize, close, stray, api>>

Next == RRTStep \/ RRTstarStep

Spec == Init /\ [][Next]_vars

(***************************************************************************)
(* Stepping without end, under fair sampling.  The node list of a run that *)
(* never stops grows without bound, but most of what it gains are twins:   *)
(* a new node that is a leaf when its step returns and has the point, the  *)
(* parent, the edge cost and the goal flag of an earlier node.  A twin     *)
(* stays a leaf with the cost of the earlier node (TwinsStayTwins, checked *)
(* on Spec): nearest and the minimisation loop take the first of equal     *)
(* candidates, and a rewire treats both alike.  No later step depends on   *)
(* it, and neither does get_shortest_path.  LiveStep is step() on the node *)
(* list without its twins: a step that would add a twin leaves the list as *)
(* it is and returns the earlier node.                                     *)
(***************************************************************************)
\* The points the fair sampler returns again and again.
LiveSamplePoints == { <<400, 400>>, <<499, 0>>, <<400, 50>>, <<250, 50>> }

\* step() of the planner class a
step(a, w, sz, cl, ns, q_rand) ==
    IF a = "RRT" THEN step_to(w, sz, ns, q_rand)
    ELSE star_step(w, sz, cl, ns, q_rand)

\* Node n is a twin of the earlier node i.
Twin(ns, i, n) ==
    /\ i < n
    /\ ns[n].children = <<>>
    /\ ns[i].pt = ns[n].pt
    /\ ns[i].parent = ns[n].parent
    /\ ns[i].newcost = ns[n].newcost
    /\ ns[i].goal = ns[n].goal

\* The outcome r of a step on the list ns, without the twin it may have added.
WithoutTwin(ns, r) ==
    IF r.ret # 0 /\ \E i \in 1..Len(ns) : Twin(r.nodes, i, r.ret)
    THEN [nodes |-> ns,
          ret |-> CHOOSE i \in 1..Len(ns) :
                      /\ Twin(r.nodes, i, r.ret)
                      /\ \A j \in 1..(i - 1) : ~ Twin(r.nodes, j, r.ret)]
    ELSE r

\* An obstacle-free space; the goal box and the start are strictly inside.
LiveInit ==
    /\ goals = Goals
    /\ \E c \in Configs :
           /\ algo = c.algo
           /\ ssize = c.ssize
           /\ close = c.close
    /\ walled = FALSE
    /\ nodes = DirectedTree(InitialPoint)
    /\ ret = 0
    /\ sampled = None
    /\ stray = StrayNode
    /\ api = NoCall

\* step() with the sampled point q_rand
LiveStep(q_rand) ==
    /\ sampled' = q_rand
    /\ \E r \in {WithoutTwin(nodes,
                              step(algo, walled, ssize, close, nodes, q_rand))} :
           nodes' = r.nodes /\ ret' = r.ret
    /\ UNCHANGED <<goals, algo, walled, ssize, close, stray, api>>

LiveNext == \E q_rand \in LiveSamplePoints : LiveStep(q_rand)

\* get_random_free_point returns q_rand
Sampled(q_rand) == sampled' = q_rand

\* Fair sampling: every point is sampled again and again.  Sampled(q_rand)
\* can change the sampled point whenever that point is another one, so the
\* condition is that the sampled point is q_rand infinitely often; with more
\* than one point to sample, that is infinitely many steps on each.
LiveSpec ==
    /\ LiveInit /\ [][LiveNext]_vars
    /\ \A q_rand \in LiveSamplePoints : WF_sampled(Sampled(q_rand))

(***************************************************************************)
(* The methods of the space, the tree and the planner called one by one    *)
(* from outside a step, on a planner as constructed and on the trees that  *)
(* add_node calls build.  get_random_free_point of the walled space is a   *)
(* call that calls itself: each draw is a step of its own, and the         *)
(* interpreter raises RuntimeError (maximum recursion depth exceeded) when *)
(* the nested calls reach its recursion limit.                             *)
(***************************************************************************)
MaxApiNodes == 3
RecursionLimit == 3

\* The arguments of the calls of collision_free, get_nearest_free_point and
\* steer: points inside, on the boundary, in the wall and on its edge.
ApiPoints ==
    { <<50, 50>>, <<250, 50>>, <<500, 250>>, <<250, 250>>,
      <<200, 250>>, <<150, 250>>, <<290, 310>>, <<499, 0>> }

\* The points of the nodes that add_node is called with.
AddPoints == { <<150, 150>> }

\* Walls that cover the whole of the space.
CoverWalls == << <<(<<0, 0>>), Dims>> >>

\* The walls of the spaces get_random_free_point is called on.
WallSets == { Walls, CoverWalls }

\* The points np.random.rand(2) * dims is drawn from by the walled space.
DrawPoints == SamplePoints \cup { <<200, 250>>, <<300, 300>> }

\* resample that returns its draw without looking at the walls
resample_unchecked(ws, frames, pt) ==
    [frames |-> frames, out |-> pt, err |-> "", pc |-> "done"]

\* One call of WallSpace.get_random_free_point on a space with the walls ws,
\* the frames-th of the nested calls, whose draw is pt.
\* RuntimeError is the RecursionError of the interpreter: the code counts no
\* retries, the nesting of the calls is what ends them.
resample(ws, frames, pt) ==
    IF point_in_some_wall(ws, pt)
    THEN IF frames >= RecursionLimit
         THEN [frames |-> frames, out |-> <<>>, err |-> "RuntimeError",
               pc |-> "done"]
         ELSE [frames |-> frames + 1, out |-> <<>>, err |-> "",
               pc |-> "running"]
    ELSE [frames |-> frames, out |-> pt, err |-> "", pc |-> "done"]

CallCollisionFree ==
    /\ api.pc = "done"
    /\ \E p \in ApiPoints : \E q \in ApiPoints :
           api' = Returned("collision_free", <<p, q>>,
                           collision_free(walled, p, q))
    /\ UNCHANGED <<goals, algo, walled, ssize, close, nodes, ret, sampled, stray>>

CallGetNearestFreePoint ==
    /\ api.pc = "done"
    /\ \E p \in ApiPoints : \E q \in ApiPoints :
           api' = Returned("get_nearest_free_point", <<p, q>>,
                           get_nearest_free_point(walled, p, q))
    /\ UNCHANGED <<goals, algo, walled, ssize, close, nodes, ret, sampled, stray>>

CallSteer ==
    /\ api.pc = "done"
    /\ \E p \in ApiPoints : \E q \in ApiPoints :
           api' = Returned("steer", <<p, q>>, SteerCall(ssize, p, q))
    /\ UNCHANGED <<goals, algo, walled, ssize, close, nodes, ret, sampled, stray>>

CallAddNode ==
    /\ api.pc = "done"
    /\ Len(nodes) < MaxApiNodes
    /\ \E parent \in {Stray} \cup (1..Len(nodes)) : \E childpt \in AddPoints :
           \E r \in {AddNodeCall(nodes, stray, parent, childpt, 1)} :
               /\ nodes' = r.nodes
               /\ stray' = r.stray
               /\ api' = [op |-> "add_node", args |-> <<parent, childpt>>,
                          out |-> r.out, err |-> r.err, pc |-> "done"]
    /\ UNCHANGED <<goals, algo, walled, ssize, close, ret, sampled>>

CallPathDown ==
    /\ api.pc = "done"
    /\ \E end_node \in {Stray} \cup (1..Len(nodes)) :
           \E r \in {PathDownCall(nodes, end_node)} :
               api' = [op |-> "path_down", args |-> <<end_node>>,
                       out |-> r.out, err |-> r.err, pc |-> "done"]
    /\ UNCHANGED <<goals, algo, walled, ssize, close, nodes, ret, sampled, stray>>

\* get_random_free_point is called: the first of the nested calls begins.
CallGetRandomFreePoint ==
    /\ api.pc = "done"
    /\ \E ws \in WallSets :
           api' = [op |-> "get_random_free_point", args |-> <<ws, 1>>,
                   out |-> <<>>, err |-> "", pc |-> "running"]
    /\ UNCHANGED <<goals, algo, walled, ssize, close, nodes, ret, sampled, stray>>

\* The innermost call draws its point: it returns it, or calls itself.
Draw ==
    /\ api.pc = "running"
    /\ \E pt \in DrawPoints :
           \E r \in {resample(api.args[1], api.args[2], pt)} :
               api' = [op |-> "get_random_free_point",
                       args |-> <<api.args[1], r.frames>>,
                       out |-> r.out, err |-> r.err, pc |-> r.pc]
    /\ UNCHANGED <<goals, algo, walled, ssize, close, nodes, ret, sampled, stray>>

ApiNext ==
    \/ CallCollisionFree
    \/ CallGetNearestFreePoint
    \/ CallSteer
    \/ CallAddNode
    \/ CallPathDown
    \/ CallGetRandomFreePoint
    \/ Draw

\* A call under way goes on: the interpreter runs the draw it has reached.
ApiSpec == Init /\ [][ApiNext]_vars /\ WF_vars(Draw)

(***************************************************************************)
(* TreeSpec: nearest and near asked of the trees that add_node builds.     *)
(* Every node is hooked up as _step_to does it, marked when its point lies *)
(* in a goal, under any node of the tree.                                  *)
(***************************************************************************)
MaxTreeNodes == 4

\* The points of the nodes: one in the goal, two as far from it as each
\* other, one within 150 of it.
TreePoints == { <<250, 50>>, <<50, 250>>, <<400, 400>>, <<290, 310>> }

\* The points and the radii that nearest and near are asked about.
QueryPoints == { <<400, 400>>, <<250, 50>>, <<150, 150>>, <<290, 310>> }
QueryRadii == { 0, 150, Inf }

TreeInit ==
    /\ goals = Goals
    /\ algo = "RRT"
    /\ ssize = 200
    /\ close = 0
    /\ walled = FALSE
    /\ nodes = DirectedTree(InitialPoint)
    /\ ret = 0
    /\ sampled = None
    /\ stray = StrayNode
    /\ api = NoCall

TreeAddNode ==
    /\ Len(nodes) < MaxTreeNodes
    /\ \E parent \in 1..Len(nodes) : \E childpt \in TreePoints :
           \E r \in {HookUp(nodes, parent, childpt,
                            Norm(nodes[parent].pt, childpt))} :
               /\ nodes' = r.nodes
               /\ api' = Returned("add_node", <<parent, childpt>>, r.ret)
    /\ UNCHANGED <<goals, algo, walled, ssize, close, ret, sampled, stray>>

CallNearest ==
    /\ \E newpt \in QueryPoints :
           api' = Returned("nearest", <<newpt>>, nearest(nodes, newpt))
    /\ UNCHANGED <<goals, algo, walled, ssize, close, nodes, ret, sampled, stray>>

CallNear ==
    /\ \E newpt \in QueryPoints : \E radius \in QueryRadii :
           api' = Returned("near", <<newpt, radius>>,
                           near(nodes, newpt, radius))
    /\ UNCHANGED <<goals, algo, walled, ssize, close, nodes, ret, sampled, stray>>

TreeNext ==
    \/ TreeAddNode
    \/ CallNearest
    \/ CallNear

TreeSpec == TreeInit /\ [][TreeNext]_vars

(***************************************************************************)
(* The planners in an obstacle-free space whose goal box reaches the edge  *)
(* of the space and lies within one step of the start: SceneSpec.  The     *)
(* planner is constructed on a start outside the goal box or on one inside *)
(* it (RRT.__init__ takes any initial point), and stepped.                 *)
(***************************************************************************)
MaxSceneNodes == 5

\* EmptySpace(dims, goals): a goal box with a side on the line x = 0.
EdgeGoals == << <<(<<0, 175>>), (<<75, 225>>)>> >>

\* The initial points the planner is constructed with.
SceneStarts == { InitialPoint, <<50, 200>> }

\* The points get_random_free_point returns.
ScenePoints == { <<150, 150>>, <<50, 400>>, <<0, 200>>, <<50, 200>> }

SceneConfigs ==
    { [algo |-> "RRT",     ssize |-> 200, close |-> 0],
      [algo |-> "RRTstar", ssize |-> 200, close |-> 150] }

SceneInit ==
    /\ goals = EdgeGoals
    /\ \E c \in SceneConfigs :
           /\ algo = c.algo
           /\ ssize = c.ssize
           /\ close = c.close
    /\ walled = FALSE
    /\ \E init_pt \in SceneStarts : nodes = DirectedTree(init_pt)
    /\ ret = 0
    /\ sampled = None
    /\ stray = StrayNode
    /\ api = NoCall

\* step() with the sampled point q_rand
SceneStep(q_rand) ==
    /\ Len(nodes) < MaxSceneNodes
    /\ sampled' = q_rand
    /\ \E r \in {step(algo, walled, ssize, close, nodes, q_rand)} :
           nodes' = r.nodes /\ ret' = r.ret
    /\ UNCHANGED <<goals, algo, walled, ssize, close, stray, api>>

SceneNext == \E q_rand \in ScenePoints : SceneStep(q_rand)

SceneSpec == SceneInit /\ [][SceneNext]_vars

(***************************************************************************)
(* Properties.                                                             *)
(***************************************************************************)
Indices == 1..Len(nodes)

\* The node was given a new parent by a rewire: only reparent makes a node
\* the child of a node added after it.
Reparented(i) == nodes[i].parent > i

\* C1: the head's cost is 0 and every other node's cost is its parent's cost
\* plus its own edge cost, after every add_node and every reparent, the
\* descendants of a reparented node included.
CostIsParentPlusEdge ==
    /\ nodes[1].parent = 0 /\ nodes[1].cost = 0
    /\ \A i \in Indices \ {1} :
           /\ nodes[i].parent \in Indices
           /\ nodes[i].cost = Add(nodes[nodes[i].parent].cost, nodes[i].newcost)

\* A reparented node has a child, whose cost the reparent has recomputed.
ReparentedWithChild ==
    \E i \in Indices : Reparented(i) /\ nodes[i].children # <<>>

\* The head is reached from node i in at most hops parent links.
RECURSIVE ReachesHead(_, _)
ReachesHead(i, hops) ==
    IF i = 1 THEN nodes[1].parent = 0
    ELSE IF hops = 0 \/ nodes[i].parent \notin Indices THEN FALSE
         ELSE ReachesHead(nodes[i].parent, hops - 1)

\* C2: following the parent links from any node reaches the head in at most
\* |nodes| hops: no rewire makes a cycle.
NoParentCycle == \A i \in Indices : ReachesHead(i, Len(nodes))

\* An RRT* step has rewired a node onto a new node that is not a goal node
\* (the new node is then itself among the neighbours of the rewire loop).
RewiredOntoFreeNode ==
    /\ algo = "RRTstar"
    /\ \E i \in Indices : Reparented(i) /\ ~ nodes[nodes[i].parent].goal

RECURSIVE SumChildren(_)
SumChildren(k) ==
    IF k = 0 THEN 0 ELSE Len(nodes[k].children) + SumChildren(k - 1)

\* C3: the number of nodes is the number of entries of all the children
\* lists, plus one.
NodesAreEdgesPlusOne == Len(nodes) = SumChildren(Len(nodes)) + 1

\* A reparent has taken the only child of a node away.
ReparentedFromOnlyChild ==
    \E i \in Indices : \E j \in Indices :
        /\ Reparented(i) /\ j < i /\ nodes[j].children = <<>>
        /\ nodes[i].parent # j /\ ~ nodes[j].goal /\ j # 1

\* The nodes from the head down to node i, built from the head's end.
RECURSIVE Ancestry(_, _)
Ancestry(i, hops) ==
    IF nodes[i].parent = 0 \/ hops = 0 THEN <<i>>
    ELSE Append(Ancestry(nodes[i].parent, hops - 1), i)

GoalSet(ns) == {i \in 1..Len(ns) : ns[i].goal}

\* C4: for RRT*, the cost get_shortest_path() returns (Inf when there is no
\* goal node) never increases from one step() to the next.
ShortestCostNeverIncreases ==
    [][algo = "RRTstar"
         => get_shortest_path(nodes').cost <= get_shortest_path(nodes).cost]_vars

\* The best goal node hangs below a node that a rewire has reparented: the
\* rewire has lowered the cost get_shortest_path() returns.
BestGoalBelowReparented ==
    /\ algo = "RRTstar"
    /\ LET r == get_shortest_path(nodes)
       IN  /\ r.end_node # 0
           /\ \E k \in 1..Len(Ancestry(r.end_node, Len(nodes))) :
                  /\ Reparented(Ancestry(r.end_node, Len(nodes))[k])
                  /\ Ancestry(r.end_node, Len(nodes))[k] # r.end_node

\* C5 (as claimed): no node is added with an infinite edge cost or an
\* infinite accumulated cost: a step whose recomputed path cost is still
\* infinite adds nothing.
NoInfiniteCost ==
    \A i \in Indices \ {1} : ~ isinf(nodes[i].newcost) /\ ~ isinf(nodes[i].cost)

\* C6 (as claimed): in a walled space every tree edge is collision free, and
\* so is every pair of consecutive points of the path get_shortest_path()
\* returns.
EdgesCollisionFree ==
    walled =>
        /\ \A i \in Indices \ {1} :
               WallCollisionFree(nodes[nodes[i].parent].pt, nodes[i].pt)
        /\ LET path == get_shortest_path(nodes).path
           IN  path # None =>
                   \A k \in 1..(Len(path) - 1) :
                       WallCollisionFree(path[k], path[k + 1])

\* C7: a step() either returns None and leaves the node list with all its
\* nodes as they were, or returns the node it has appended at the end of the
\* list; it removes no node, keeps the order and every node's point.
StepIsAtomic ==
    [][\/ ret' = 0 /\ nodes' = nodes
       \/ /\ ret' = Len(nodes) + 1
          /\ Len(nodes') = Len(nodes) + 1
          /\ \A i \in 1..Len(nodes) : nodes'[i].pt = nodes[i].pt]_vars

\* A step has returned None on a tree that earlier steps have grown.
StepReturnedNone == ret = 0 /\ Len(nodes) > 1

\* C8: get_shortest_path() returns (Inf, None) when there is no goal node;
\* otherwise the cost of a goal node of least cost, the one inserted first
\* among those, and the points from the head down to that node.
ShortestPathIsFirstCheapestGoal ==
    LET r == get_shortest_path(nodes)
        G == GoalSet(nodes)
    IN  IF G = {} THEN r.cost = Inf /\ r.path = None /\ r.end_node = 0
        ELSE /\ r.end_node \in G
             /\ r.cost = nodes[r.end_node].cost
             /\ \A j \in G : /\ r.cost <= nodes[j].cost
                             /\ nodes[j].cost = r.cost => r.end_node <= j
             /\ LET anc == Ancestry(r.end_node, Len(nodes))
                IN  r.path = [k \in 1..Len(anc) |-> nodes[anc[k]].pt]

\* Two goal nodes share the least cost and a third one costs more.
TiedCheapestGoals ==
    \E i \in GoalSet(nodes) : \E j \in GoalSet(nodes) : \E k \in GoalSet(nodes) :
        /\ i < j /\ nodes[i].cost = nodes[j].cost
        /\ nodes[k].cost > nodes[i].cost
        /\ \A l \in GoalSet(nodes) : nodes[l].cost >= nodes[i].cost

\* The point lies in one of the goal boxes.
InSomeGoal(pt) ==
    \E g \in 1..Len(Goals) :
        \A c \in 1..2 : Goals[g][1][c] <= pt[c] /\ pt[c] <= Goals[g][2][c]

\* C9: a path that get_shortest_path() returns starts at the planner's
\* initial point and ends inside a goal region.
PathFromStartToGoal ==
    LET path == get_shortest_path(nodes).path
    IN  path # None => path[1] = InitialPoint /\ InSomeGoal(path[Len(path)])

\* A path of at least three points is returned.
LongPathReturned ==
    LET path == get_shortest_path(nodes).path
    IN  path # None /\ Len(path) >= 3

\* A twin stays a twin: it stays a leaf and keeps the parent and the edge
\* cost of the earlier node, whatever steps and rewires follow.
TwinsStayTwins ==
    [][\A i \in Indices : \A j \in Indices :
           Twin(nodes, i, j) => Twin(nodes', i, j)]_vars

\* get_shortest_path() returns a finite cost and a path.
HasFinitePath ==
    LET r == get_shortest_path(nodes)
    IN  r.path # None /\ ~ isinf(r.cost)

\* C10: in an obstacle-free space with the goal box and the start strictly
\* inside, under fair sampling, the steps of a planner eventually create a
\* goal node, and from then on get_shortest_path() returns a finite cost and
\* a path.
EventuallyGoalForever == <>[]HasFinitePath

\* In the same space and under the same sampling, the basic RRT, and RRT*
\* with a close radius of at most its step size, do reach the goal for good.
StepLimitedSearchReachesGoal ==
    (algo = "RRT" \/ close <= ssize) => <>[]HasFinitePath

\* C12: add_node called with a parent that is not in the tree, and path_down
\* called with a node that is not in the tree, raise an error and leave the
\* node list, every children list in it and the stray node's as they were.
StrayNodeIsRefused ==
    [][/\ (api'.op = "add_node" /\ api'.args[1] = Stray)
            => /\ api'.err = "AssertionError"
               /\ nodes' = nodes
               /\ stray' = stray
       /\ (api'.op = "path_down" /\ api'.args[1] = Stray)
            => /\ api'.err = "AssertionError"
               /\ nodes' = nodes
               /\ stray' = stray]_vars

\* add_node has been called with the stray node on a tree that has grown.
StrayParentCalled ==
    /\ api.op = "add_node" /\ api.args[1] = Stray
    /\ Len(nodes) > 1

Range(s) == {s[k] : k \in 1..Len(s)}

\* The nodes of the list ns that nearest and near return.
ReturnedNodes(ns) ==
    UNION { {nearest(ns, q)} \cup UNION { Range(near(ns, q, r)) : r \in QueryRadii }
            : q \in QueryPoints }

\* C13: once a node is marked as goal, its goal flag stays set and neither
\* nearest nor near returns it, in the state the step leaves and in every
\* later one, whatever steps and rewires follow.
GoalNodesStayExcluded ==
    [][/\ \A i \in 1..Len(nodes) : nodes[i].goal => nodes'[i].goal
       /\ (\E i \in 1..Len(nodes') : nodes'[i].goal)
            => \A n \in ReturnedNodes(nodes') : ~ nodes'[n].goal]_vars

\* A goal node that later steps have followed is the closest of all the
\* nodes to a point asked about.
GoalNodeClosestOfAll ==
    \E i \in Indices :
        /\ nodes[i].goal /\ i < Len(nodes)
        /\ \E q \in QueryPoints :
               \A j \in Indices \ {i} :
                   Norm(nodes[i].pt, q) < Norm(nodes[j].pt, q)

\* The point has a coordinate that is 0 or the dimension of the space.
OnBoundary(point) ==
    \E c \in 1..2 : point[c] = 0 \/ point[c] = Dims[c]

\* The point lies in no wall rectangle of ws, edges included.
OutsideWalls(ws, point) ==
    \A i \in 1..Len(ws) :
        \E c \in 1..2 : point[c] < ws[i][1][c] \/ point[c] > ws[i][2][c]

\* C14: collision_free(p, p) is true for every p strictly inside the bounds
\* and outside all the walls, and collision_free(p, q) is false when p or q
\* has a coordinate equal to 0 or to the dimension, in both spaces.
CollisionFreeInsideNotOnBoundary ==
    api.op = "collision_free" =>
        LET p == api.args[1]
            q == api.args[2]
        IN  /\ (/\ p = q
                /\ \A c \in 1..2 : 0 < p[c] /\ p[c] < Dims[c]
                /\ walled => OutsideWalls(Walls, p))
                   => api.out = TRUE
            /\ (OnBoundary(p) \/ OnBoundary(q)) => api.out = FALSE

\* The walled space was asked about a point next to the wall, and about a
\* segment from inside the bounds to the boundary.
CollisionFreeBesideWall ==
    /\ api.op = "collision_free" /\ walled
    /\ api.args[1] = <<290, 310>>
    /\ \/ api.args[2] = api.args[1] /\ api.out = TRUE
       \/ OnBoundary(api.args[2])

\* C15 (as claimed): in an obstacle-free space every step() of the basic RRT
\* returns the node it has added, never None.
RRTStepNeverNone ==
    (algo = "RRT" /\ ~ walled /\ sampled # None) => ret # 0

SqDist(p, q) ==
    (p[1] - q[1]) * (p[1] - q[1]) + (p[2] - q[2]) * (p[2] - q[2])

\* C17: near(point, radius) returns exactly the non-goal nodes whose distance
\* to the point is at most the radius, each once and in the order of their
\* insertion: with the radius 0 the non-goal nodes at the point itself, with
\* an infinite radius all the non-goal nodes.
NearIsFreeNodesWithinRadius ==
    api.op = "near" =>
        LET q == api.args[1]
            r == api.args[2]
            res == api.out
        IN  /\ \A k \in 1..(Len(res) - 1) : res[k] < res[k + 1]
            /\ Range(res) =
                   {i \in Indices :
                       /\ ~ nodes[i].goal
                       /\ (r = Inf \/ Norm(nodes[i].pt, q) <= r)}
            /\ r = 0 =>
                   Range(res) = {i \in Indices :
                                    ~ nodes[i].goal /\ nodes[i].pt = q}

\* near was asked about a point and the radius 0 with two non-goal nodes at
\* that point, a goal node within 150 of it and a non-goal node elsewhere.
NearHasCoincidentNodes ==
    /\ api.op = "near"
    /\ api.args[2] = 0
    /\ Len(api.out) = 2
    /\ \E i \in Indices :
           nodes[i].goal /\ SqDist(nodes[i].pt, api.args[1]) <= 150 * 150

\* C18: nearest(point) returns a non-goal node that is at least as close to
\* the point as every non-goal node, and the one inserted first of those
\* that are as close as it.
NearestIsFirstClosestFreeNode ==
    api.op = "nearest" =>
        LET q == api.args[1]
            n == api.out
        IN  /\ n \in Indices
            /\ ~ nodes[n].goal
            /\ \A j \in Indices :
                   ~ nodes[j].goal =>
                       /\ Norm(nodes[n].pt, q) <= Norm(nodes[j].pt, q)
                       /\ Norm(nodes[j].pt, q) = Norm(nodes[n].pt, q) => n <= j

\* nearest was asked about a point that two non-goal nodes at different
\* points are equally far from, with no non-goal node closer and a goal node
\* closer than both.
TiedNearestNodes ==
    /\ api.op = "nearest"
    /\ \E i \in Indices : \E j \in Indices :
           /\ i < j
           /\ ~ nodes[i].goal /\ ~ nodes[j].goal
           /\ nodes[i].pt # nodes[j].pt
           /\ SqDist(nodes[i].pt, api.args[1]) = SqDist(nodes[j].pt, api.args[1])
           /\ \A k \in Indices :
                  ~ nodes[k].goal =>
                      SqDist(nodes[i].pt, api.args[1]) <= SqDist(nodes[k].pt, api.args[1])
           /\ \E k \in Indices :
                  /\ nodes[k].goal
                  /\ SqDist(nodes[k].pt, api.args[1]) < SqDist(nodes[i].pt, api.args[1])

\* The points where the segment meets an outer edge or an edge of a wall.
AllIntersections(point_from, point_to) ==
    LET edges == {OuterEdges[k] : k \in 1..4}
                 \cup UNION { {BoxEdges(Walls[i])[k] : k \in 1..4}
                              : i \in 1..Len(Walls) }
    IN  {find_intersection_point(point_from, point_to, e[1], e[2]) : e \in edges}
        \ {None}

\* C19 (as claimed): in the walled space get_nearest_free_point(from, to)
\* returns the intersection point nearest to from among all those of the
\* segment with the outer edges and with the edges of the walls, and returns
\* to when there is none.
NearestFreePointIsNearestOfAll ==
    (api.op = "get_nearest_free_point" /\ walled) =>
        LET point_from == api.args[1]
            point_to == api.args[2]
            all == AllIntersections(point_from, point_to)
        IN  IF all = {} THEN api.out = point_to
            ELSE /\ api.out \in all
                 /\ \A p \in all :
                        Norm(point_from, api.out) <= Norm(point_from, p)

\* C20: steer(from, to) returns to itself exactly when the distance from
\* from to to is less than the step size, so not at the step size itself;
\* otherwise it returns the point of the segment from -> to at the step
\* size from from, up to the rounding of the coordinates.
SteerClampsToStepSize ==
    api.op = "steer" =>
        LET point_from == api.args[1]
            point_to == api.args[2]
            q == api.out.point
            vlen == Norm(point_to, point_from)
        IN  /\ api.out.is_point_to <=> vlen < ssize
            /\ api.out.is_point_to => q = point_to
            /\ ~ api.out.is_point_to =>
                   /\ Min2(point_from[1], point_to[1]) <= q[1]
                   /\ q[1] <= Max2(point_from[1], point_to[1])
                   /\ Min2(point_from[2], point_to[2]) <= q[2]
                   /\ q[2] <= Max2(point_from[2], point_to[2])
                   /\ Abs(Cross(point_from, point_to, q))
                          <= Abs(point_to[1] - point_from[1])
                             + Abs(point_to[2] - point_from[2])
                   /\ ssize - 2 <= Norm(point_from, q)
                   /\ Norm(point_from, q) <= ssize + 1

\* steer was called with a target at the step size itself: the point it
\* returns is the target, made anew.
SteerAtStepSize ==
    /\ api.op = "steer"
    /\ SqDist(api.args[1], api.args[2]) = ssize * ssize
    /\ ~ api.out.is_point_to
    /\ api.out.point = api.args[2]

\* The candidates of an RRT* step on the tree ns with the sample q_rand, in
\* the order of near: the node, its point, its edge cost, its total cost.
RECURSIVE Candidates(_, _, _)
Candidates(Q_near, k, q_rand) ==
    IF k > Len(Q_near) THEN <<>>
    ELSE Bind(Candidate(walled, ssize, nodes, Q_near[k], q_rand),
              LAMBDA c :
                  << [node |-> Q_near[k], q_path |-> c.q_path,
                      cost_path |-> c.cost_path,
                      tot |-> Add(nodes[Q_near[k]].cost, c.cost_path)] >>)
         \o Candidates(Q_near, k + 1, q_rand)

\* The position of the first candidate of least total cost; 0 when no
\* candidate has a finite total cost.
FirstCheapest(cs) ==
    LET finite == {k \in 1..Len(cs) : ~ isinf(cs[k].tot)}
    IN  IF finite = {} THEN 0
        ELSE CHOOSE k \in finite :
                 \A j \in finite :
                     cs[k].tot < cs[j].tot \/ (cs[k].tot = cs[j].tot /\ k <= j)

\* C21: in an RRT* step whose Q_near is not empty, the new node hangs under
\* the first candidate, in the order of near, of least total cost, at that
\* candidate's steered or fallback point and with its edge cost; when no
\* candidate has a finite total cost the step adds nothing and leaves the
\* tree as it was.
StarStepTakesFirstCheapestCandidate ==
    [][algo = "RRTstar" =>
          \E Q_near \in {near(nodes, sampled', close)} :
              Len(Q_near) > 0 =>
                  \E cs \in {Candidates(Q_near, 1, sampled')} :
                      \E best \in {FirstCheapest(cs)} :
                          IF best = 0 THEN nodes' = nodes /\ ret' = 0
                          ELSE /\ Len(nodes') = Len(nodes) + 1
                               /\ ret' = Len(nodes')
                               /\ nodes'[ret'].parent = cs[best].node
                               /\ nodes'[ret'].pt = cs[best].q_path
                               /\ nodes'[ret'].newcost = cs[best].cost_path]_vars

\* An RRT* step has hung its new node under a node that is not the first of
\* the tree within the close radius of the sample: a later candidate was
\* cheaper.
LaterCandidateWon ==
    /\ algo = "RRTstar" /\ ret > 1
    /\ \E j \in 1..(nodes[ret].parent - 1) :
           /\ ~ nodes[j].goal
           /\ Norm(nodes[j].pt, sampled) <= close
           /\ ~ Reparented(j)

\* After the step no way through the new node is cheaper: every non-goal
\* node within min(step size, close radius) of the new node that a free
\* path leads to from it costs no more than the new node plus that path.
NoCheaperWayThroughNewNode(ns, new_node) ==
    \A n \in 1..Len(ns) :
        (/\ ~ ns[n].goal
         /\ Norm(ns[n].pt, ns[new_node].pt) <= Min2(ssize, close))
            => \E cost_new \in {get_path_cost(walled, ns[new_node].pt, ns[n].pt)} :
                   isinf(cost_new)
                   \/ ns[n].cost <= Add(ns[new_node].cost, cost_new)

\* The step changes a node's parent only to the new node and only when that
\* strictly lowers the node's cost.
ParentsChangeOnlyToNewNode ==
    \A n \in 1..Len(nodes) :
        nodes'[n].parent # nodes[n].parent
            => nodes'[n].parent = ret' /\ nodes'[n].cost < nodes[n].cost

\* C22: after every RRT* step that adds a node no way through the new node
\* is cheaper, and the step changes a parent only to the new node and only
\* to lower the cost.
RewireLeavesNoCheaperWay ==
    [][(algo = "RRTstar" /\ ret' # 0) =>
          /\ NoCheaperWayThroughNewNode(nodes', ret')
          /\ ParentsChangeOnlyToNewNode]_vars

\* The last RRT* step has reparented one neighbour of its new node and left
\* another, which a free path leads to as well, where it was.
RewiredOneNeighbourOfTwo ==
    /\ algo = "RRTstar" /\ ret > 1
    /\ \E i \in 1..(ret - 1) : nodes[i].parent = ret
    /\ \E j \in 2..(ret - 1) :
           /\ ~ nodes[j].goal
           /\ nodes[j].parent # ret /\ nodes[ret].parent # j
           /\ Norm(nodes[j].pt, nodes[ret].pt) <= Min2(ssize, close)
           /\ ~ isinf(get_path_cost(walled, nodes[ret].pt, nodes[j].pt))

\* The orders a set of nodes can be gone through in.
RECURSIVE Permutations(_)
Permutations(S) ==
    IF S = {} THEN {<<>>}
    ELSE UNION { {<<x>> \o p : p \in Permutations(S \ {x})} : x \in S }

Costs(ns) == [i \in 1..Len(ns) |-> ns[i].cost]

\* The tree of an RRT* step between add_node and the rewire loop, from the
\* tree before the step and the new node as the step has left it.
BeforeRewire ==
    HookUp(nodes, nodes'[ret'].parent, nodes'[ret'].pt, nodes'[ret'].newcost).nodes

\* The neighbours the rewire loop can reparent at all: a free path leads to
\* them from the new node.  For the others, and for the new node itself, the
\* test of the loop fails wherever they stand in the list, since it depends
\* on the points only.
Reparentable(ns, new_node, neighbours) ==
    {n \in Range(neighbours) :
        /\ n # new_node
        /\ ~ isinf(get_path_cost(walled, ns[new_node].pt, ns[n].pt))}

\* C23: the rewire loop of an RRT* step leaves every node with the same
\* cost whatever the order the neighbours are gone through in.
RewireOrderIsIrrelevant ==
    [][(algo = "RRTstar" /\ ret' # 0) =>
          \E ns \in {BeforeRewire} :
              \E neighbours \in {near(ns, ns[ret'].pt, Min2(ssize, close))} :
                  \A p \in Permutations(Reparentable(ns, ret', neighbours)) :
                      Costs(Rewire(walled, ns, ret', p, 1)) = Costs(nodes')]_vars

\* The last RRT* step has reparented a node and not the child that node had
\* then, which was a neighbour too: gone through the other way round, the
\* loop would have reparented the child first.
RewiredAboveNeighbour ==
    /\ algo = "RRTstar" /\ ret > 1
    /\ \E i \in 1..(ret - 1) : \E j \in 1..(ret - 1) :
           /\ nodes[i].parent = ret
           /\ nodes[j].parent = i
           /\ ~ nodes[j].goal
           /\ Norm(nodes[j].pt, nodes[ret].pt) <= Min2(ssize, close)
           /\ ~ isinf(get_path_cost(walled, nodes[ret].pt, nodes[j].pt))

\* The nodes of the tree ns below node n.
Descendants(ns, n) ==
    {d \in 1..Len(ns) \ {n} :
        \E k \in 1..Len(PathUp(ns, d, 1)) : PathUp(ns, d, 1)[k] = n}

\* One reparent of node n, from the tree ns to the tree ns1, lowers the
\* cost of n, lowers the cost of every node below n by as much, and leaves
\* every other cost as it was.
ReparentLowers(ns, ns1, n) ==
    /\ ns1[n].cost < ns[n].cost
    /\ \A d \in Descendants(ns1, n) :
           ns1[d].cost = ns[d].cost - (ns[n].cost - ns1[n].cost)
    /\ \A i \in 1..Len(ns) \ ({n} \cup Descendants(ns1, n)) :
           ns1[i].cost = ns[i].cost

\* Every reparent of the rewire loop, from its k-th neighbour on, lowers.
RECURSIVE EveryReparentLowers(_, _, _, _)
EveryReparentLowers(ns, new_node, neighbours, k) ==
    IF k > Len(neighbours) THEN TRUE
    ELSE IF ShouldRewire(walled, ns, new_node, neighbours[k])
         THEN \E ns1 \in {reparent(ns, neighbours[k], new_node,
                                    get_path_cost(walled, ns[new_node].pt,
                                                  ns[neighbours[k]].pt))} :
                  /\ ReparentLowers(ns, ns1, neighbours[k])
                  /\ EveryReparentLowers(ns1, new_node, neighbours, k + 1)
         ELSE EveryReparentLowers(ns, new_node, neighbours, k + 1)

\* C24 (as claimed): no RRT* step raises the cost of a node of the tree;
\* each reparent of its rewire loop strictly lowers the cost of the node it
\* reparents, lowers the cost of each node below that one by the same
\* amount and changes no other cost.
CostsOnlyFallByReparent ==
    [][algo = "RRTstar" =>
          /\ \A i \in 1..Len(nodes) : nodes'[i].cost <= nodes[i].cost
          /\ (ret' # 0 /\ Len(near(nodes, sampled', close)) > 0) =>
                 \E ns \in {BeforeRewire} :
                     EveryReparentLowers(ns, ret',
                         near(ns, ns[ret'].pt, Min2(ssize, close)), 1)]_vars

\* How often x occurs in the sequence s.
Count(s, x) == Cardinality({k \in 1..Len(s) : s[k] = x})

\* The nodes reached from the nodes of the set seen by children links, in
\* at most hops further links.
RECURSIVE ReachedByChildren(_, _)
ReachedByChildren(seen, hops) ==
    IF hops = 0 THEN seen
    ELSE ReachedByChildren(
             seen \cup UNION {Range(nodes[i].children) : i \in seen}, hops - 1)

\* C25: every node but the root is exactly once in the children list of its
\* parent and in no other children list, the root is in none, and every
\* node is reached from the root by children links.
ChildrenMirrorParents ==
    /\ \A p \in Indices : \A i \in Indices :
           Count(nodes[p].children, i)
               = IF i # 1 /\ nodes[i].parent = p THEN 1 ELSE 0
    /\ \A p \in Indices : Range(nodes[p].children) \subseteq Indices
    /\ ReachedByChildren({1}, Len(nodes)) = Indices

\* A reparent has moved a node from a parent that keeps another child to a
\* parent that has another child.
ReparentedBetweenSiblings ==
    \E i \in Indices :
        /\ Reparented(i)
        /\ Len(nodes[nodes[i].parent].children) >= 2
        /\ \E j \in 1..(i - 1) :
               /\ nodes[j].children # <<>>
               /\ \E k \in (j + 1)..(i - 1) : nodes[k].parent # j /\ k # 1

\* C26: path_down of any node of the tree comes to an end; the path it
\* returns starts with the root, ends with the node, holds no node twice,
\* and each of its nodes is the parent of the next.
PathDownIsRootToNode ==
    \A i \in Indices :
        \E path \in {path_down(nodes, i)} :
            /\ Len(path) <= Len(nodes)
            /\ path[1] = 1 /\ nodes[1].parent = 0
            /\ path[Len(path)] = i
            /\ \A k \in 1..Len(path) : \A l \in 1..Len(path) :
                   path[k] = path[l] => k = l
            /\ \A k \in 1..(Len(path) - 1) : nodes[path[k + 1]].parent = path[k]

\* A node's path from the root leads through a reparented node and the new
\* node the rewire hung it under.
PathThroughReparentedNode ==
    \E i \in Indices :
        /\ Len(path_down(nodes, i)) >= 4
        /\ Reparented(nodes[i].parent)

\* C27 (as claimed): a goal node has no children: no step hangs a new
\* node under a goal node and no rewire reparents a node onto one.
GoalNodesAreLeaves ==
    \A i \in Indices : nodes[i].goal => nodes[i].children = <<>>

\* C28: no step marks the root as goal, not even when the initial point
\* lies inside a goal region, so there is always a non-goal node for
\* tree.nearest to return and for the next step to extend from.
RootIsNeverGoal ==
    /\ ~ nodes[1].goal
    /\ free_nodes(nodes) # <<>>
    /\ \A q_rand \in ScenePoints : ~ nodes[nearest(nodes, q_rand)].goal

\* The initial point is inside a goal region, steps have added nodes and
\* every node but the root is a goal node.
OnlyRootIsFree ==
    /\ check_point_in_goals(nodes[1].pt)
    /\ Len(nodes) >= 3
    /\ ret = Len(nodes)
    /\ \A i \in 2..Len(nodes) : nodes[i].goal

\* The sum of the edge costs of the nodes path[k..], the head's left out.
RECURSIVE SumOfEdges(_, _, _)
SumOfEdges(ns, path, k) ==
    IF k > Len(path) THEN 0
    ELSE Add(IF ns[path[k]].parent = 0 THEN 0 ELSE ns[path[k]].newcost,
             SumOfEdges(ns, path, k + 1))

\* C29 (as claimed): get_shortest_path() returns the cost +infinity exactly
\* when it returns no path; the cost it returns with a path is finite and
\* is the sum of the edge costs along that path.
InfiniteCostIffNoPath ==
    \E r \in {get_shortest_path(nodes)} :
        /\ isinf(r.cost) <=> r.path = None
        /\ r.path # None =>
               r.cost = SumOfEdges(nodes, path_down(nodes, r.end_node), 1)

\* Node i of the list ns1 is node i of the list ns, but for the children
\* list, which has the node new_node appended when i is its parent.
KeptBut(ns, ns1, i, new_node) ==
    /\ ns1[i].pt = ns[i].pt
    /\ ns1[i].parent = ns[i].parent
    /\ ns1[i].newcost = ns[i].newcost
    /\ ns1[i].cost = ns[i].cost
    /\ ns1[i].goal = ns[i].goal
    /\ ns1[i].children =
           IF new_node # 0 /\ ns1[new_node].parent = i
           THEN Append(ns[i].children, new_node)
           ELSE ns[i].children

\* C30: a step() of the basic RRT changes no parent, edge cost, cost or goal
\* flag of a node that was in the tree before the step, and changes no
\* children list but that of the new node's parent, by appending the new
\* node to it.
RRTStepKeepsExistingNodes ==
    [][algo = "RRT" =>
           /\ Len(nodes') \in {Len(nodes), Len(nodes) + 1}
           /\ \A i \in 1..Len(nodes) :
                  KeptBut(nodes, nodes', i,
                          IF Len(nodes') > Len(nodes) THEN Len(nodes') ELSE 0)]_vars

\* A basic RRT step has added a goal node under a node that had a child
\* already and a parent of its own.
RRTStepBranchedToGoal ==
    /\ algo = "RRT"
    /\ ret = Len(nodes)
    /\ ret > 1
    /\ nodes[ret].goal
    /\ Len(nodes[nodes[ret].parent].children) >= 2
    /\ nodes[nodes[ret].parent].parent # 0

====
